---- MODULE Spec2Model ----
(***************************************************************************)
(* Model of the mb_oil_finder package: the VIN decoder (vin_decoder.py),   *)
(* the exception hierarchy (exceptions.py), the data models (models.py)    *)
(* and the oil finder (oil_finder.py).                                     *)
(*                                                                         *)
(* The package is stateless: every public method is a function of its      *)
(* argument and of the class-level tables.  The state of the model is the  *)
(* last call made on a decoder / finder instance: which method, with which *)
(* argument, and how it ended (a returned value or a raised exception).    *)
(*                                                                         *)
(* Python strings that are sliced or scanned character by character (the   *)
(* VIN and its fields) are sequences of one-character strings; strings     *)
(* that are only compared or used as keys are TLA+ strings.                *)
(***************************************************************************)
EXTENDS Integers, Sequences, FiniteSets, TLC

VARIABLES op, arg, result, oil_specifications

vars == <<op, arg, result, oil_specifications>>

---------------------------------------------------------------------------
(* Bounds of the enumerated inputs.                                        *)

\* longest VIN candidate handed to the decoder (17 is the valid length)
MaxLen == 18

---------------------------------------------------------------------------
(* Python values.                                                          *)

None == [type |-> "NoneType"]

Str(s) == [type |-> "str", chars |-> s]

\* a list of one-character strings: a non-str value that has a length
List(s) == [type |-> "list", chars |-> s]

\* bool(v): None and empty containers are falsy
Truthy(v) == IF v = None THEN FALSE ELSE Len(v.chars) > 0

isinstance_str(v) == v # None /\ v.type = "str"

Min(a, b) == IF a < b THEN a ELSE b

\* s[start:end] for 0 <= start <= end: the indices are clamped to len(s)
Slice(s, start, end) == SubSeq(s, Min(start, Len(s)) + 1, Min(end, Len(s)))

\* any(c in chars for c in s)
AnyCharIn(s, chars) == \E i \in 1..Len(s) : s[i] \in chars

---------------------------------------------------------------------------
(* exceptions.py: the class hierarchy, as the base class of each class.    *)

\* the hierarchy with UnsupportedVehicleError derived from InvalidVINError
ExceptionBase_unsupported_is_invalid ==
    [ MBOilFinderError         |-> "Exception",
      VINDecoderError          |-> "MBOilFinderError",
      InvalidVINError          |-> "VINDecoderError",
      UnsupportedVehicleError  |-> "InvalidVINError",
      OilFinderError           |-> "MBOilFinderError",
      NoOilRecommendationError |-> "OilFinderError",
      EngineDataError          |-> "MBOilFinderError" ]

ExceptionBase ==
    [ MBOilFinderError         |-> "Exception",
      VINDecoderError          |-> "MBOilFinderError",
      InvalidVINError          |-> "VINDecoderError",
      UnsupportedVehicleError  |-> "VINDecoderError",
      OilFinderError           |-> "MBOilFinderError",
      NoOilRecommendationError |-> "OilFinderError",
      EngineDataError          |-> "MBOilFinderError" ]

ExceptionClasses == DOMAIN ExceptionBase \cup {"Exception"}

RECURSIVE issubclass(_, _)
issubclass(c, d) ==
    IF c = d THEN TRUE
    ELSE IF c \notin DOMAIN ExceptionBase THEN FALSE
    ELSE issubclass(ExceptionBase[c], d)

\* how a call ends
Return(v) == [kind |-> "return", exc |-> "", value |-> v]

Raise(e, m) == [kind |-> "raise", exc |-> e, value |-> m]

\* "except handler:" catches the outcome
Catches(handler, outcome) ==
    outcome.kind = "raise" /\ issubclass(outcome.exc, handler)

---------------------------------------------------------------------------
(* models.py                                                               *)

\* displacement is kept in tenths of a litre
EngineData(code, type, family, description, displacement, cylinders, fuel_type) ==
    [ code |-> code, type |-> type, family |-> family,
      description |-> description, displacement |-> displacement,
      cylinders |-> cylinders, fuel_type |-> fuel_type ]

OilSpecification(mb_approval, viscosity, type, description) ==
    [ mb_approval |-> mb_approval, viscosity |-> viscosity,
      type |-> type, description |-> description ]

OilRecommendation(primary, alternatives) ==
    [ primary |-> primary, alternatives |-> alternatives ]

VINData(vin, manufacturer, model_series, engine_code, model_details, model_year, plant_code, serial_number, engine) ==
    [ vin |-> vin, manufacturer |-> manufacturer,
      model_series |-> model_series, engine_code |-> engine_code,
      model_details |-> model_details, model_year |-> model_year,
      plant_code |-> plant_code, serial_number |-> serial_number,
      engine |-> engine ]

---------------------------------------------------------------------------
(* vin_decoder.py: class VINDecoder                                        *)

MB_MANUFACTURER_CODES ==
    { <<"W","D","D">>, <<"W","D","B">>, <<"W","D","C">>,
      <<"W","M","X">>, <<"4","J","G">> }

\* field name -> (start, end), in declaration order
VIN_FIELDS ==
    << "manufacturer", "model_series", "engine_code", "model_details",
       "model_year", "plant_code", "serial_number" >>

\* the table with the engine code read from positions 8-9
VIN_STRUCTURE_engine_code_shifted ==
    [ manufacturer  |-> <<0, 3>>,
      model_series  |-> <<3, 6>>,
      engine_code   |-> <<7, 9>>,
      model_details |-> <<8, 9>>,
      model_year    |-> <<9, 10>>,
      plant_code    |-> <<10, 11>>,
      serial_number |-> <<11, 17>> ]

VIN_STRUCTURE ==
    [ manufacturer  |-> <<0, 3>>,
      model_series  |-> <<3, 6>>,
      engine_code   |-> <<6, 8>>,
      model_details |-> <<8, 9>>,
      model_year    |-> <<9, 10>>,
      plant_code    |-> <<10, 11>>,
      serial_number |-> <<11, 17>> ]

ENGINE_CODES ==
    ( <<"4","2">> :> EngineData(<<"4","2">>, "OM651", "Diesel",
                                "2.1L 4-cylinder diesel engine", 21, 4, "Diesel") )
    @@
    ( <<"6","4">> :> EngineData(<<"6","4">>, "M276", "Gasoline",
                                "3.5L V6 gasoline engine", 35, 6, "Gasoline") )

\* validate_vin with the manufacturer check moved before the length check
validate_vin_manufacturer_before_length(vin) ==
    IF ~Truthy(vin) \/ ~isinstance_str(vin)
    THEN Raise("InvalidVINError", "VIN must be a non-empty string")
    ELSE IF Slice(vin.chars, 0, 3) \notin MB_MANUFACTURER_CODES
    THEN Raise("UnsupportedVehicleError", "Not a recognized Mercedes-Benz VIN")
    ELSE IF Len(vin.chars) # 17
    THEN Raise("InvalidVINError", "VIN must be 17 characters long")
    ELSE IF AnyCharIn(vin.chars, {"I", "O", "Q"})
    THEN Raise("InvalidVINError",
               "VIN contains invalid characters: I, O, or Q are not allowed")
    ELSE Return(TRUE)

\* validate_vin with the manufacturer check moved before the character check
validate_vin_manufacturer_before_characters(vin) ==
    IF ~Truthy(vin) \/ ~isinstance_str(vin)
    THEN Raise("InvalidVINError", "VIN must be a non-empty string")
    ELSE IF Len(vin.chars) # 17
    THEN Raise("InvalidVINError", "VIN must be 17 characters long")
    ELSE IF Slice(vin.chars, 0, 3) \notin MB_MANUFACTURER_CODES
    THEN Raise("UnsupportedVehicleError", "Not a recognized Mercedes-Benz VIN")
    ELSE IF AnyCharIn(vin.chars, {"I", "O", "Q"})
    THEN Raise("InvalidVINError",
               "VIN contains invalid characters: I, O, or Q are not allowed")
    ELSE Return(TRUE)

\* validate_vin returning False, as its docstring words it, for a foreign VIN
validate_vin_returns_false(vin) ==
    IF ~Truthy(vin) \/ ~isinstance_str(vin)
    THEN Raise("InvalidVINError", "VIN must be a non-empty string")
    ELSE IF Len(vin.chars) # 17
    THEN Raise("InvalidVINError", "VIN must be 17 characters long")
    ELSE IF AnyCharIn(vin.chars, {"I", "O", "Q"})
    THEN Raise("InvalidVINError",
               "VIN contains invalid characters: I, O, or Q are not allowed")
    ELSE IF Slice(vin.chars, 0, 3) \notin MB_MANUFACTURER_CODES
    THEN Return(FALSE)
    ELSE Return(TRUE)

validate_vin(vin) ==
    IF ~Truthy(vin) \/ ~isinstance_str(vin)
    THEN Raise("InvalidVINError", "VIN must be a non-empty string")
    ELSE IF Len(vin.chars) # 17
    THEN Raise("InvalidVINError", "VIN must be 17 characters long")
    ELSE IF AnyCharIn(vin.chars, {"I", "O", "Q"})
    THEN Raise("InvalidVINError",
               "VIN contains invalid characters: I, O, or Q are not allowed")
    ELSE IF Slice(vin.chars, 0, 3) \notin MB_MANUFACTURER_CODES
    THEN Raise("UnsupportedVehicleError", "Not a recognized Mercedes-Benz VIN")
    ELSE Return(TRUE)

\* the lookup made strict: ENGINE_CODES[engine_code] with the KeyError turned
\* into an engine data error
_get_engine_data_strict(engine_code) ==
    IF engine_code \in DOMAIN ENGINE_CODES
    THEN Return(ENGINE_CODES[engine_code])
    ELSE Raise("EngineDataError", "Engine not found")

\* ENGINE_CODES.get(engine_code): the entry, or None without raising
_get_engine_data(engine_code) ==
    IF engine_code \in DOMAIN ENGINE_CODES
    THEN Return(ENGINE_CODES[engine_code])
    ELSE Return(None)

decode_vin(vin) ==
    LET validated == validate_vin(vin) IN
    IF validated.kind = "raise" THEN validated
    ELSE
      LET components ==
              [ name \in DOMAIN VIN_STRUCTURE |->
                  Slice(vin.chars, VIN_STRUCTURE[name][1], VIN_STRUCTURE[name][2]) ]
          engine_data == _get_engine_data(components.engine_code)
      IN  IF engine_data.kind = "raise" THEN engine_data
          ELSE Return(VINData(vin,
                              components.manufacturer,
                              components.model_series,
                              components.engine_code,
                              components.model_details,
                              components.model_year,
                              components.plant_code,
                              components.serial_number,
                              engine_data.value))

---------------------------------------------------------------------------
(* oil_finder.py: class OilFinder                                          *)

OIL_SPECIFICATIONS ==
    [ k \in {"229.1", "229.3", "229.5", "229.51"} |->
        CASE k = "229.1"  -> OilSpecification("229.1", "10W-40", "Semi-synthetic",
                 "Basic specification for gasoline and diesel engines")
          [] k = "229.3"  -> OilSpecification("229.3", "5W-40", "Synthetic",
                 "High-performance specification for gasoline and diesel engines")
          [] k = "229.5"  -> OilSpecification("229.5", "5W-30", "Synthetic",
                 "Advanced specification for extended drain intervals")
          [] k = "229.51" -> OilSpecification("229.51", "5W-30", "Synthetic",
                 "Low SAPS oil for diesel engines with particulate filters") ]

\* the table with the OM651 alternatives copied into the M276 row
ENGINE_OIL_MAPPING_primary_among_alternatives ==
    [ OM651 |-> [primary |-> "229.51", alternatives |-> <<"229.5", "229.3">>],
      M276  |-> [primary |-> "229.5",  alternatives |-> <<"229.5", "229.3">>] ]

ENGINE_OIL_MAPPING ==
    [ OM651 |-> [primary |-> "229.51", alternatives |-> <<"229.5", "229.3">>],
      M276  |-> [primary |-> "229.5",  alternatives |-> <<"229.3">>] ]

\* the loop inserting each resolved alternative at the front of the list
RECURSIVE alternative_specs_reversed(_, _)
alternative_specs_reversed(alt_codes, specifications) ==
    IF alt_codes = << >> THEN << >>
    ELSE LET alt_code == Head(alt_codes) IN
         IF alt_code \in DOMAIN specifications
         THEN alternative_specs_reversed(Tail(alt_codes), specifications) \o <<specifications[alt_code]>>
         ELSE alternative_specs_reversed(Tail(alt_codes), specifications)

\* the loop of find_oil_by_engine over mapping["alternatives"]: a code that
\* OIL_SPECIFICATIONS.get does not resolve is skipped
RECURSIVE alternative_specs(_, _)
alternative_specs(alt_codes, specifications) ==
    IF alt_codes = << >> THEN << >>
    ELSE LET alt_code == Head(alt_codes) IN
         IF alt_code \in DOMAIN specifications
         THEN <<specifications[alt_code]>> \o alternative_specs(Tail(alt_codes), specifications)
         ELSE alternative_specs(Tail(alt_codes), specifications)

\* find_oil_by_engine raising EngineDataError for missing engine data
find_oil_by_engine_engine_data_error(engine_data) ==
    IF engine_data = None \/ engine_data.type = ""
    THEN Raise("EngineDataError", "Invalid engine data")
    ELSE IF engine_data.type \notin DOMAIN ENGINE_OIL_MAPPING
    THEN Raise("NoOilRecommendationError", "No oil recommendation for engine type")
    ELSE
      LET mapping == ENGINE_OIL_MAPPING[engine_data.type] IN
      IF mapping.primary \notin DOMAIN oil_specifications
      THEN Raise("NoOilRecommendationError", "Primary oil specification not found")
      ELSE Return(OilRecommendation(
                      oil_specifications[mapping.primary],
                      alternative_specs(mapping.alternatives, oil_specifications)))

find_oil_by_engine(engine_data) ==
    IF engine_data = None \/ engine_data.type = ""
    THEN Raise("NoOilRecommendationError", "Invalid engine data")
    ELSE IF engine_data.type \notin DOMAIN ENGINE_OIL_MAPPING
    THEN Raise("NoOilRecommendationError", "No oil recommendation for engine type")
    ELSE
      LET mapping == ENGINE_OIL_MAPPING[engine_data.type] IN
      IF mapping.primary \notin DOMAIN oil_specifications
      THEN Raise("NoOilRecommendationError", "Primary oil specification not found")
      ELSE Return(OilRecommendation(
                      oil_specifications[mapping.primary],
                      alternative_specs(mapping.alternatives, oil_specifications)))

\* find_oil_by_engine(engine_data, climate=...): the method is declared with
\* the single parameter engine_data, so the call fails before its body runs
find_oil_by_engine_climate(engine_data, climate) ==
    Raise("TypeError", "find_oil_by_engine() got an unexpected keyword argument 'climate'")

\* find_oil_by_vin delegating without looking at vin_data.engine first
find_oil_by_vin_unchecked(vin_data) ==
    IF vin_data = None
    THEN Raise("NoOilRecommendationError",
               "VIN data does not contain engine information")
    ELSE find_oil_by_engine(vin_data.engine)

find_oil_by_vin(vin_data) ==
    IF vin_data = None \/ vin_data.engine = None
    THEN Raise("NoOilRecommendationError",
               "VIN data does not contain engine information")
    ELSE find_oil_by_engine(vin_data.engine)

---------------------------------------------------------------------------
(* The arguments the callers pass.                                         *)

WMIInputs ==
    MB_MANUFACTURER_CODES \cup { <<"1","H","G">>, <<"W","D","Q">> }

SeriesInputs == { <<"2","0","5">> }

EngineCodeInputs == { <<"4","2">>, <<"6","4">>, <<"0","4">>, <<"9","9">> }

\* positions 9-17: model details, model year, plant code, serial number
TailInputs ==
    { <<"2","1","A","1","2","3","4","5","6">>,
      <<"2","1","A","1","2","3","4","5","Q">>,
      <<"2","I","A","1","2","3","4","5","6">>,
      <<"3","1","L","9","2","4","8","8","O">>,
      <<"2","1","$","1","2","3","4","5","6">> }

\* 17-character candidates
BaseVins ==
    { w \o s \o e \o t : w \in WMIInputs, s \in SeriesInputs,
                         e \in EngineCodeInputs, t \in TailInputs }

RECURSIVE Padding(_)
Padding(n) == IF n <= 0 THEN << >> ELSE <<"7">> \o Padding(n - 1)

\* the first n characters of v, v being continued with "7"s when n > len(v)
Resize(v, n) == IF n <= Len(v) THEN SubSeq(v, 1, n) ELSE v \o Padding(n - Len(v))

\* the candidates that are also passed truncated and extended
ResizedVins ==
    { v \in BaseVins : /\ SubSeq(v, 7, 8) = <<"0","4">>
                       /\ SubSeq(v, 9, 16) = <<"2","1","A","1","2","3","4","5">> }

VinStrings ==
    BaseVins \cup { Resize(v, n) : v \in ResizedVins, n \in 0..MaxLen }

VinInputs ==
    { Str(s) : s \in VinStrings } \cup { None }
    \cup { List(v) : v \in ResizedVins }

EngineInputs ==
    { None } \cup { ENGINE_CODES[c] : c \in DOMAIN ENGINE_CODES }
    \cup { EngineData(<<"9","9">>, t, "Diesel", "", 30, 6, "Diesel") :
             t \in {"", "UNKNOWN", "OM642"} }

DecodedInputs ==
    { decode_vin(v).value : v \in { x \in VinInputs : decode_vin(x).kind = "return" } }

VinDataInputs ==
    { None } \cup DecodedInputs
    \cup { [d EXCEPT !.engine = e] :
             d \in { x \in DecodedInputs : x.manufacturer = <<"W","D","D">>
                                           /\ x.engine_code = <<"0","4">>
                                           /\ x.plant_code = <<"A">> },
             e \in EngineInputs }

ClimateInputs == {"standard", "hot", "cold"}

\* OIL_SPECIFICATIONS with some of its entries missing
SpecificationTables ==
    { [k \in keys |-> OIL_SPECIFICATIONS[k]] : keys \in SUBSET DOMAIN OIL_SPECIFICATIONS }

---------------------------------------------------------------------------
(* The state machine: one action per public call.                          *)

Init ==
    /\ op = "__init__"
    /\ arg = None
    /\ result = Return(None)
    /\ oil_specifications = OIL_SPECIFICATIONS

\* the finder reads the table through self: the table as an input
InitTables ==
    /\ op = "__init__"
    /\ arg = None
    /\ result = Return(None)
    /\ oil_specifications \in SpecificationTables

ValidateVin ==
    \E vin \in VinInputs :
        /\ op' = "validate_vin"
        /\ arg' = vin
        /\ result' = validate_vin(vin)
        /\ UNCHANGED oil_specifications

DecodeVin ==
    \E vin \in VinInputs :
        /\ op' = "decode_vin"
        /\ arg' = vin
        /\ result' = decode_vin(vin)
        /\ UNCHANGED oil_specifications

GetEngineData ==
    \E engine_code \in EngineCodeInputs :
        /\ op' = "_get_engine_data"
        /\ arg' = Str(engine_code)
        /\ result' = _get_engine_data(engine_code)
        /\ UNCHANGED oil_specifications

FindOilByEngine ==
    \E engine_data \in EngineInputs :
        /\ op' = "find_oil_by_engine"
        /\ arg' = engine_data
        /\ result' = find_oil_by_engine(engine_data)
        /\ UNCHANGED oil_specifications

FindOilByVin ==
    \E vin_data \in VinDataInputs :
        /\ op' = "find_oil_by_vin"
        /\ arg' = vin_data
        /\ result' = find_oil_by_vin(vin_data)
        /\ UNCHANGED oil_specifications

FindOilByEngineClimate ==
    \E engine_data \in EngineInputs, climate \in ClimateInputs :
        /\ op' = "find_oil_by_engine(climate)"
        /\ arg' = [engine_data |-> engine_data, climate |-> climate]
        /\ result' = find_oil_by_engine_climate(engine_data, climate)
        /\ UNCHANGED oil_specifications

Next ==
    \/ ValidateVin
    \/ DecodeVin
    \/ GetEngineData
    \/ FindOilByEngine
    \/ FindOilByEngineClimate
    \/ FindOilByVin

Spec == Init /\ [][Next]_vars

SpecTables == InitTables /\ [][Next]_vars

---------------------------------------------------------------------------
(* Properties of the VIN decoder.                                          *)

\* C1: decode_vin of a string whose length is not 17 (the empty string
\* included) raises InvalidVINError, whatever its first three characters
\* are; it never raises UnsupportedVehicleError.
C1_WrongLengthIsFormatError ==
    (op = "decode_vin" /\ isinstance_str(arg) /\ Len(arg.chars) # 17)
        => (result.kind = "raise" /\ result.exc = "InvalidVINError")

\* a wrong-length string with a foreign manufacturer prefix was decoded
C1_Witness ==
    /\ op = "decode_vin"
    /\ isinstance_str(arg)
    /\ Len(arg.chars) \in {16, 18}
    /\ SubSeq(arg.chars, 1, 3) = <<"1","H","G">>
    /\ result.kind = "raise"
    /\ result.exc = "InvalidVINError"

\* C2: decode_vin of a 17-character string containing I, O or Q raises
\* InvalidVINError, with a supported manufacturer prefix and with an
\* unsupported one.
C2_ForbiddenCharacterIsFormatError ==
    (op = "decode_vin" /\ isinstance_str(arg) /\ Len(arg.chars) = 17
        /\ (\E i \in 1..17 : arg.chars[i] \in {"I", "O", "Q"}))
        => (result.kind = "raise" /\ result.exc = "InvalidVINError")

\* a 17-character string with a Q and a foreign prefix was decoded
C2_Witness ==
    /\ op = "decode_vin"
    /\ isinstance_str(arg)
    /\ Len(arg.chars) = 17
    /\ arg.chars[17] = "Q"
    /\ SubSeq(arg.chars, 1, 3) = <<"1","H","G">>
    /\ result.kind = "raise"
    /\ result.exc = "InvalidVINError"

C6_ExampleVinDecoded ==
    (op = "decode_vin"
        /\ arg = Str(<<"W","D","D","2","0","5","0","4","2","1","A","1","2","3","4","5","6">>))
        => /\ result.kind = "return"
           /\ result.value.manufacturer = <<"W","D","D">>
           /\ result.value.model_series = <<"2","0","5">>
           /\ result.value.engine_code = <<"4","2">>
           /\ result.value.model_details = <<"1">>
           /\ result.value.model_year = <<"A">>
           /\ result.value.engine # None
           /\ result.value.engine.family = "Diesel"
           /\ result.value.engine.type = "OM651"

\* C7: decode_vin succeeds for every VIN validate_vin accepts; the engine
\* of the record is the ENGINE_CODES entry of characters 7-8 when there is
\* one and None when there is none; decode_vin raises nothing but the two
\* validation errors.
C7_DecodeToleratesUnknownEngine ==
    (op = "decode_vin") =>
        /\ (validate_vin(arg).kind = "return") =>
              /\ result.kind = "return"
              /\ LET code == SubSeq(arg.chars, 7, 8) IN
                 IF code \in { <<"4","2">>, <<"6","4">> }
                 THEN /\ result.value.engine # None
                      /\ result.value.engine.code = code
                      /\ result.value.engine = ENGINE_CODES[code]
                 ELSE result.value.engine = None
        /\ (result.kind = "raise") =>
              result.exc \in {"InvalidVINError", "UnsupportedVehicleError"}

\* a valid VIN whose engine code has no entry was decoded without engine
C7_Witness ==
    /\ op = "decode_vin"
    /\ isinstance_str(arg)
    /\ Len(arg.chars) = 17
    /\ SubSeq(arg.chars, 7, 8) = <<"9","9">>
    /\ result.kind = "return"
    /\ result.value.engine = None

\* C8: the engine lookup by code returns the ENGINE_CODES entry when the
\* code is present and raises when it is absent; it never returns None.
C8_StrictEngineLookup ==
    (op = "_get_engine_data") =>
        IF arg.chars \in DOMAIN ENGINE_CODES
        THEN result = Return(ENGINE_CODES[arg.chars])
        ELSE result.kind = "raise"

---------------------------------------------------------------------------
(* Properties of the oil finder.                                           *)

C10_MissingPrimaryIsDistinctError ==
    (op = "find_oil_by_engine"
        /\ arg # None
        /\ arg.type \in DOMAIN ENGINE_OIL_MAPPING
        /\ ENGINE_OIL_MAPPING[arg.type].primary \notin DOMAIN oil_specifications)
        => (result.kind = "raise" /\ result.exc # "NoOilRecommendationError")

\* C11: whenever find_oil_by_engine returns a recommendation, no alternative
\* is the primary specification and no specification occurs twice among
\* the alternatives.
C11_AlternativesExcludePrimaryNoDuplicates ==
    (op = "find_oil_by_engine" /\ result.kind = "return") =>
        LET alternatives == result.value.alternatives IN
        /\ \A i \in 1..Len(alternatives) :
              /\ alternatives[i] # result.value.primary
              /\ alternatives[i].mb_approval # result.value.primary.mb_approval
        /\ \A i, j \in 1..Len(alternatives) :
              i # j => alternatives[i] # alternatives[j]

\* a recommendation with two alternatives was returned
C11_Witness ==
    /\ op = "find_oil_by_engine"
    /\ result.kind = "return"
    /\ Len(result.value.alternatives) = 2

\* C12: find_oil_by_vin raises the "no engine information"
\* NoOilRecommendationError when the record has no engine, and otherwise
\* ends exactly as find_oil_by_engine ends for the record's engine.
C12_FindByVinDelegates ==
    (op = "find_oil_by_vin") =>
        IF arg = None \/ arg.engine = None
        THEN result = Raise("NoOilRecommendationError",
                            "VIN data does not contain engine information")
        ELSE result = find_oil_by_engine(arg.engine)

\* the record of a decoded VIN whose engine code has no entry was passed
C12_Witness ==
    /\ op = "find_oil_by_vin"
    /\ arg # None
    /\ arg = decode_vin(arg.vin).value
    /\ arg.engine_code = <<"0","4">>
    /\ arg.engine = None
    /\ result.kind = "raise"
    /\ result.exc = "NoOilRecommendationError"

C14_ClimateFallsBackToStandard ==
    (op = "find_oil_by_engine(climate)") =>
        IF arg.engine_data # None
              /\ arg.engine_data.type \in DOMAIN ENGINE_OIL_MAPPING
        THEN result = find_oil_by_engine(arg.engine_data)
        ELSE result.kind = "raise" /\ result.exc = "NoOilRecommendationError"

\* C15: validate_vin raises InvalidVINError for every 17-character string
\* that contains a character that is neither a letter nor a digit, also
\* when the prefix is supported and no I, O or Q occurs.
C15_NonAlphanumericRejected ==
    (op = "validate_vin" /\ isinstance_str(arg) /\ Len(arg.chars) = 17
        /\ (\E i \in 1..17 : arg.chars[i] \notin
              { "0","1","2","3","4","5","6","7","8","9",
                "A","B","C","D","E","F","G","H","I","J","K","L","M",
                "N","O","P","Q","R","S","T","U","V","W","X","Y","Z",
                "a","b","c","d","e","f","g","h","i","j","k","l","m",
                "n","o","p","q","r","s","t","u","v","w","x","y","z" }))
        => (result.kind = "raise" /\ result.exc = "InvalidVINError")

====
